---- MODULE Spec2Model ----
(***************************************************************************)
(* Model of the PeerMetals video-reel pipeline:                            *)
(*   - videoreels/api/render-video.js   (synchronous render endpoint)      *)
(*   - videoreels/webhook/route.js      (listing-insert webhook)           *)
(*   - videoreels/src/utils/generateDescription.js (description generator) *)
(*                                                                         *)
(* JavaScript values are records [t, v]: t is the JS type and v the        *)
(* characters of a string or the digits of a number.  Texts (messages,     *)
(* paths, descriptions) are sequences of pieces; a template literal is the *)
(* concatenation of its pieces.  Texts whose length matters are written    *)
(* one character per piece.                                                *)
(***************************************************************************)
EXTENDS Integers, Sequences, FiniteSets, TLC

(***************************************************************************)
(* Bounds of the model.                                                    *)
(***************************************************************************)
MaxClock == 1
MaxRequests == 2
\* lengths of the longest category and of the longest service answer given
\* to the description functions
MaxCategoryLen == 100
MaxTextLen == 151

(***************************************************************************)
(* JavaScript values.                                                      *)
(***************************************************************************)
Undefined == [t |-> "undefined", v |-> <<>>]
JsNull == [t |-> "null", v |-> <<>>]
JsStr(s) == [t |-> "string", v |-> s]
JsNum(d) == [t |-> "number", v |-> d]
JsArr(a) == [t |-> "array", v |-> a]
JsObj(f) == [t |-> "object", v |-> <<>>, f |-> f]
EmptyObj == JsObj(<<>>)
JsBool(b) == [t |-> "boolean", v |-> IF b THEN <<"true">> ELSE <<"false">>]

\* !!x
Truthy(x) ==
  CASE x.t = "undefined" -> FALSE
    [] x.t = "null" -> FALSE
    [] x.t = "string" -> x.v # <<>>
    [] x.t = "number" -> x.v # <<"0">>
    [] OTHER -> TRUE

\* a || b
Or(a, b) == IF Truthy(a) THEN a ELSE b

\* obj.field : a property that is not there reads as undefined
Get(obj, field) ==
  IF obj.t = "object" /\ field \in DOMAIN obj.f THEN obj.f[field] ELSE Undefined

\* `${x}` : the text a value contributes to a template literal
ToStr(x) ==
  CASE x.t = "undefined" -> <<"undefined">>
    [] x.t = "null" -> <<"null">>
    [] x.t = "object" -> <<"[object Object]">>
    [] OTHER -> x.v

\* the outcome of a call: a returned value or a raised error
Ok(val) == [throws |-> FALSE, value |-> val]
Throw(msg) == [throws |-> TRUE, message |-> msg]

(***************************************************************************)
(* String primitives used by the description generator.                    *)
(***************************************************************************)
UpperChars == <<"A","B","C","D","E","F","G","H","I","J","K","L","M",
                "N","O","P","Q","R","S","T","U","V","W","X","Y","Z">>
LowerChars == <<"a","b","c","d","e","f","g","h","i","j","k","l","m",
                "n","o","p","q","r","s","t","u","v","w","x","y","z">>

ToLowerCase(s) ==
  [i \in 1..Len(s) |->
     IF \E k \in 1..Len(UpperChars) : UpperChars[k] = s[i]
       THEN LowerChars[CHOOSE k \in 1..Len(UpperChars) : UpperChars[k] = s[i]]
       ELSE s[i]]

IsSpace(c) == c \in {" ", "\n", "\t"}

RECURSIVE TrimStart(_)
TrimStart(s) ==
  IF s # <<>> /\ IsSpace(Head(s)) THEN TrimStart(Tail(s)) ELSE s

RECURSIVE TrimEnd(_)
TrimEnd(s) ==
  IF s # <<>> /\ IsSpace(s[Len(s)]) THEN TrimEnd(SubSeq(s, 1, Len(s) - 1)) ELSE s

Trim(s) == TrimEnd(TrimStart(s))

\* s.substring(0, n)
Substring0(s, n) == SubSeq(s, 1, IF n < Len(s) THEN n ELSE Len(s))

Ellipsis == <<".",".",".">>

IsQuote(c) == c \in {"\"", "'"}

\* s.replace(/^["']|["']$/g, '')
StripQuotes(s) ==
  LET a == IF s # <<>> /\ IsQuote(Head(s)) THEN Tail(s) ELSE s
  IN  IF a # <<>> /\ IsQuote(a[Len(a)]) THEN SubSeq(a, 1, Len(a) - 1) ELSE a

(***************************************************************************)
(* generateDescription.js : the punchy ("detailed") variant, the one the   *)
(* render endpoint calls.                                                  *)
(***************************************************************************)
DetailedBudget == 80
DetailedKeep == 77

DefaultCategory == <<"p","r","e","c","i","o","u","s"," ","m","e","t","a","l">>
DiscoverPrefix ==
  <<"D","i","s","c","o","v","e","r"," ","t","h","i","s"," ",
    "e","x","c","e","p","t","i","o","n","a","l"," ">>
PieceSuffix == <<" ","p","i","e","c","e",".">>

NotAFunction(what) == <<what, " is not a function">>

\* generateFallbackDetailed(listing): raises a TypeError when the category is
\* truthy and not a string (it has no toLowerCase).
generateFallbackDetailed(listing) ==
  LET category == Or(Get(Get(listing, "specifications"), "category"),
                     JsStr(DefaultCategory))
  IN  IF category.t = "string"
        THEN Ok(DiscoverPrefix \o ToLowerCase(category.v) \o PieceSuffix)
        ELSE Throw(NotAFunction("category.toLowerCase"))

\* the text the service answered, cleaned up and cut to the budget
CleanDetailed(text) ==
  LET description == StripQuotes(Trim(text))
  IN  IF Len(description) > DetailedBudget
        THEN Substring0(description, DetailedKeep) \o Ellipsis
        ELSE description

\* generateDetailedDescription(listing), given whether the credential is
\* configured and what the text-generation service does when it is called.
\* The result says whether the service was called.
generateDetailedDescription(listing, hasKey, svc) ==
  LET desc == Get(listing, "description")
      \* the body of the try block
      tried ==
        IF ~hasKey THEN generateFallbackDetailed(listing)
        ELSE IF Truthy(desc) /\ desc.t # "string"
          THEN Throw(NotAFunction("listing.description.replace"))
        ELSE IF svc.throws THEN svc
        ELSE Ok(CleanDetailed(svc.value))
      called == hasKey /\ ~(Truthy(desc) /\ desc.t # "string")
      final == IF tried.throws THEN generateFallbackDetailed(listing) ELSE tried
  IN  [result |-> final, called |-> called]

(***************************************************************************)
(* generateDescription.js : the short variant and its fallback.            *)
(***************************************************************************)
ShortBudget == 150
ShortKeep == 147
FallbackBudget == 120
FallbackKeep == 117

\* the character budgets the two prompts state to the service
ShortPromptBudget == 120
DetailedPromptBudget == 80

PurityInfix == <<" ","p","u","r","i","t","y"," ">>
FromInfix == <<" ","f","r","o","m"," ">>
SentenceEnd == <<".", " ">>
PremiumPrefix == <<"P","r","e","m","i","u","m"," ">>
CollectiblePrefix == <<"C","o","l","l","e","c","t","i","b","l","e"," ">>
BeautifulPrefix == <<"B","e","a","u","t","i","f","u","l"," ">>
PieceInfix == <<" ","p","i","e","c","e","."," ">>
ConditionSuffix == <<" ","c","o","n","d","i","t","i","o","n",".">>
ExceptionalQuality == <<"E","x","c","e","p","t","i","o","n","a","l"," ","q","u","a","l","i",
    "t","y",".">>
InvestmentGrade == <<"I","n","v","e","s","t","m","e","n","t"," ","g","r","a","d","e",".">>
ExcellentSpecimen == <<"E","x","c","e","l","l","e","n","t"," ","s","p","e","c","i","m","e",
    "n",".">>
QualityGuaranteed == <<"Q","u","a","l","i","t","y"," ","g","u","a","r","a","n","t","e","e",
    "d",".">>

\* generateFallbackDescription with the year taking priority over the purity
generateFallbackDescription_yearFirst(listing) ==
  LET specifications == Get(listing, "specifications")
      category == Or(Get(specifications, "category"), JsStr(DefaultCategory))
      condition == Or(Get(specifications, "condition"), JsStr(<<>>))
      purity == Or(Get(specifications, "purity"), JsStr(<<>>))
      year == Or(Get(specifications, "year"), JsStr(<<>>))
      description ==
        IF Truthy(year)
          THEN CollectiblePrefix \o ToLowerCase(category.v) \o FromInfix \o ToStr(year)
               \o SentenceEnd
               \o (IF Truthy(condition) THEN ToStr(condition) \o ConditionSuffix
                                         ELSE ExcellentSpecimen)
        ELSE IF Truthy(purity)
          THEN PremiumPrefix \o ToStr(purity) \o PurityInfix \o ToLowerCase(category.v)
               \o SentenceEnd
               \o (IF Truthy(condition) THEN ToStr(condition) \o ConditionSuffix
                                         ELSE InvestmentGrade)
          ELSE BeautifulPrefix \o ToLowerCase(category.v) \o PieceInfix
               \o (IF Truthy(condition) THEN ToStr(condition) \o ConditionSuffix
                                         ELSE QualityGuaranteed)
  IN  IF category.t # "string"
        THEN Throw(NotAFunction("category.toLowerCase"))
        ELSE Ok(IF Len(description) > FallbackBudget
                  THEN Substring0(description, FallbackKeep) \o Ellipsis
                  ELSE description)

\* generateFallbackDescription(listing): raises a TypeError when the category
\* is truthy and not a string
generateFallbackDescription(listing) ==
  LET specifications == Get(listing, "specifications")
      category == Or(Get(specifications, "category"), JsStr(DefaultCategory))
      condition == Or(Get(specifications, "condition"), JsStr(<<>>))
      purity == Or(Get(specifications, "purity"), JsStr(<<>>))
      year == Or(Get(specifications, "year"), JsStr(<<>>))
      \* condition ? condition + ' condition.' : <default>
      closing(default) ==
        IF Truthy(condition) THEN ToStr(condition) \o ConditionSuffix ELSE default
      lower == ToLowerCase(category.v)
      description ==
        IF Truthy(purity) /\ Truthy(year)
          THEN ToStr(purity) \o PurityInfix \o lower \o FromInfix \o ToStr(year)
               \o SentenceEnd \o closing(ExceptionalQuality)
        ELSE IF Truthy(purity)
          THEN PremiumPrefix \o ToStr(purity) \o PurityInfix \o lower
               \o SentenceEnd \o closing(InvestmentGrade)
        ELSE IF Truthy(year)
          THEN CollectiblePrefix \o lower \o FromInfix \o ToStr(year)
               \o SentenceEnd \o closing(ExcellentSpecimen)
        ELSE BeautifulPrefix \o lower \o PieceInfix \o closing(QualityGuaranteed)
  IN  IF category.t # "string"
        THEN Throw(NotAFunction("category.toLowerCase"))
        ELSE Ok(IF Len(description) > FallbackBudget
                  THEN Substring0(description, FallbackKeep) \o Ellipsis
                  ELSE description)

\* the text the service answered, trimmed and cut to the budget
CleanVideo(text) ==
  LET description == Trim(text)
  IN  IF Len(description) > ShortBudget
        THEN Substring0(description, ShortKeep) \o Ellipsis
        ELSE description

\* generateVideoDescription with the credential check left out
generateVideoDescription_keyless(listing, hasKey, svc) ==
  LET desc == Get(listing, "description")
      tried ==
        IF Truthy(desc) /\ desc.t # "string"
          THEN Throw(NotAFunction("listing.description.replace"))
        ELSE IF svc.throws THEN svc
        ELSE Ok(CleanVideo(svc.value))
      called == ~(Truthy(desc) /\ desc.t # "string")
      final == IF tried.throws THEN generateFallbackDescription(listing) ELSE tried
  IN  [result |-> final, called |-> called]

\* generateVideoDescription(listing), given whether the credential is
\* configured and what the text-generation service does when it is called.
\* The result says whether the service was called.
generateVideoDescription(listing, hasKey, svc) ==
  LET desc == Get(listing, "description")
      \* the body of the try block
      tried ==
        IF ~hasKey THEN generateFallbackDescription(listing)
        ELSE IF Truthy(desc) /\ desc.t # "string"
          THEN Throw(NotAFunction("listing.description.replace"))
        ELSE IF svc.throws THEN svc
        ELSE Ok(CleanVideo(svc.value))
      called == hasKey /\ ~(Truthy(desc) /\ desc.t # "string")
      final == IF tried.throws THEN generateFallbackDescription(listing) ELSE tried
  IN  [result |-> final, called |-> called]

(***************************************************************************)
(* Configuration, records of the data store and the requests considered.  *)
(***************************************************************************)
\* process.env: NODE_ENV, whether the text-generation key is set, and the
\* application base URL
Envs ==
  { [NODE_ENV |-> "development", hasGeminiKey |-> TRUE,
     APP_URL |-> JsStr(<<"https://app.test">>)],
    [NODE_ENV |-> "production", hasGeminiKey |-> FALSE, APP_URL |-> Undefined] }

IdL1 == <<"L","1">>
IdAbc == <<"a","b","c">>
UserU1 == <<"u","1">>
UserU2 == <<"u","2">>

GoldCoin ==
  [id |-> JsStr(IdL1), user_id |-> JsStr(UserU1), title |-> JsStr(<<"T">>),
   images |-> JsArr(<<"img1", "img2">>),
   tier1_category |-> JsStr(<<"G","o","l","d">>),
   weight |-> JsNum(<<"1">>), purity |-> JsStr(<<".","9","9","9">>),
   year |-> JsStr(<<"2","0","2","4">>), status |-> JsStr(<<"active">>)]

\* an inline payload with no id, no owner and no title, whose category, year
\* and weight are numbers
SparseListing ==
  [tier2_category |-> JsNum(<<"5">>), year |-> JsNum(<<"1","9","8","6">>),
   weight |-> JsNum(<<"0">>)]

IdL2 == <<"L","2">>

\* the listings table before any job ran: two rows, no video yet
InitialListings ==
  [i \in {IdL1, IdL2} |->
     IF i = IdL1
       THEN [id |-> JsStr(IdL1), user_id |-> JsStr(UserU1),
             title |-> JsStr(<<"T">>),
             images |-> JsArr(<<"img1", "img2">>),
             tier1_category |-> JsStr(<<"G","o","l","d">>),
             weight |-> JsNum(<<"1">>),
             status |-> JsStr(<<"active">>),
             video_url |-> JsNull]
       ELSE [id |-> JsStr(IdL2), user_id |-> JsStr(UserU2),
             title |-> JsStr(<<"S">>),
             images |-> JsArr(<<"img3">>),
             tier1_category |-> JsStr(<<"S","i","l","v","e","r">>),
             weight |-> JsNum(<<"1","0">>),
             status |-> JsStr(<<"active">>),
             video_url |-> JsNull]]

\* the profiles table (never written by the pipeline)
\* the second row is a profile that was never filled in: no display name and an
\* empty username
Profiles ==
  [u \in {UserU1, UserU2} |->
     IF u = UserU1
       THEN [username |-> JsStr(<<"alice">>), full_name |-> JsStr(<<"Alice A">>),
             avatar_url |-> JsNull]
       ELSE [username |-> JsStr(<<>>), full_name |-> JsNull, avatar_url |-> JsNull]]

\* req.method and req.body of the render endpoint
Methods == {"POST", "GET"}

RenderBodies ==
  { Undefined, EmptyObj,
    JsObj([listingId |-> JsStr(IdAbc)]),
    JsObj([listingId |-> JsStr(IdL1)]),
    JsObj([listingData |-> JsObj(GoldCoin)]),
    JsObj([listingData |-> JsObj(SparseListing)]),
    JsObj([listingId |-> JsStr(IdAbc),
           listingData |-> JsObj([GoldCoin EXCEPT !.user_id = JsStr(UserU2),
                                                  !.weight = Undefined])]) }

\* what supabase.from('listings').select('*').eq('id', id).single() may
\* resolve to: { data, error }
ListingLookups(table, id) ==
  LET found == IF id.t = "string" /\ id.v \in DOMAIN table
                 THEN { [data |-> JsObj(table[id.v]), error |-> JsNull] }
                 ELSE { [data |-> JsNull,
                         error |-> JsObj([message |-> JsStr(
                           <<"JSON object requested, multiple (or no) rows returned">>)])],
                        [data |-> JsNull,
                         error |-> JsObj([message |-> JsStr(
                           <<"invalid input syntax for type uuid: ">> \o ToStr(id))])],
                        [data |-> JsNull, error |-> JsNull] }
  IN  found \cup { [data |-> JsNull,
                    error |-> JsObj([message |-> JsStr(<<"TypeError: fetch failed">>)])] }

\* what supabase.from('profiles').select(...).eq('id', id).single() may
\* resolve to
ProfileLookups(id) ==
  LET found == IF id.t = "string" /\ id.v \in DOMAIN Profiles
                 THEN { [data |-> JsObj(Profiles[id.v]), error |-> JsNull] }
                 ELSE { [data |-> JsNull, error |-> JsNull] }
  IN  found \cup { [data |-> JsNull,
                    error |-> JsObj([message |-> JsStr(<<"TypeError: fetch failed">>)])] }

\* what model.generateContent(prompt) may do
ServiceOutcomes ==
  { Throw(<<"429 quota exceeded">>),
    Ok(<<"R","a","r","e"," ","g","o","l","d",".">>),
    Ok(<<"\"","R","a","r","e"," ","g","o","l","d",".","\"">>) }

\* bundle(), selectComposition(), renderMedia(): resolve or reject
BundleOutcomes == { Ok(<<"/tmp/bundle">>), Throw(<<"Module not found">>) }
SelectOutcomes == { Ok(<<"ListingReel">>), Throw(<<"Invalid input props">>) }
RenderOutcomes == { Ok(<<>>), Throw(<<"Chromium crashed">>) }

\* fs.readFileSync / fs.unlinkSync: return or throw
FsErrors == { <<"EIO: i/o error">> }
NoEntry == <<"ENOENT: no such file or directory">>

\* storage upload resolves to { data, error }
UploadErrors == { JsStr(<<"Bucket not found">>) }
Duplicate == JsStr(<<"The resource already exists">>)

\* listings update resolves to { error }
UpdateErrors == { JsObj([message |-> JsStr(<<"permission denied">>)]) }

Jobs == {"j1", "j2"}

(***************************************************************************)
(* State.                                                                  *)
(***************************************************************************)
VARIABLES
  env,        \* process.env
  now,        \* Date.now(), in milliseconds
  served,     \* number of render requests received so far
  listings,   \* the data store's listings table
  storage,    \* paths of the objects in the 'listings' storage bucket
  tmpFiles,   \* paths of the files on the local disk under /tmp
  job,        \* locals of each invocation of the render handler
  res,        \* responses sent by each invocation: <<[status, body]>>
  calls,      \* external calls made by each invocation, in order
  wh,         \* locals of the webhook handler's invocation
  wres,       \* responses returned by the webhook handler
  wcalls,     \* external calls made by the webhook handler, in order
  gen,        \* the last call of a description function: argument and result
  health      \* the invocation of the health endpoint: request and response

vars == <<env, now, served, listings, storage, tmpFiles, job, res, calls,
          wh, wres, wcalls, gen, health>>

renderVars == <<served, listings, storage, tmpFiles, job, res, calls>>
webhookVars == <<wh, wres, wcalls>>

IdleJob ==
  [pc |-> "idle", method |-> "", body |-> Undefined, startTime |-> 0,
   listing |-> Undefined, seller |-> Undefined, props |-> Undefined,
   outputFileName |-> <<>>, publicUrl |-> <<>>,
   caught |-> <<>>, logged |-> <<>>]

IdleWebhook ==
  [pc |-> "idle", body |-> Undefined, listing |-> Undefined, seller |-> Undefined]

IdleGen ==
  [pc |-> "idle", fn |-> "", listing |-> Undefined, svc |-> Undefined,
   result |-> Undefined, called |-> FALSE]

IdleHealth == [pc |-> "idle", method |-> "", response |-> <<>>]

Init ==
  /\ env \in Envs
  /\ now = 0
  /\ served = 0
  /\ listings = InitialListings
  /\ storage = {}
  /\ tmpFiles = {}
  /\ job = [j \in Jobs |-> IdleJob]
  /\ res = [j \in Jobs |-> <<>>]
  /\ calls = [j \in Jobs |-> <<>>]
  /\ wh = IdleWebhook
  /\ wres = <<>>
  /\ wcalls = <<>>
  /\ gen = IdleGen
  /\ health = IdleHealth

(***************************************************************************)
(* render-video.js : handler(req, res)                                     *)
(***************************************************************************)
\* ((Date.now() - startTime) / 1000).toFixed(2)
ToFixed2(ms) ==
  LET cs == (ms + 5) \div 10
  IN  <<ToString(cs \div 100), ".", ToString((cs \div 10) % 10), ToString(cs % 10)>>

\* the body of the 500 response built by the catch block
ErrorBody(message, startTime) ==
  IF env.NODE_ENV = "development"
    THEN [success |-> FALSE, error |-> message, stack |-> <<"Error: ">> \o message,
          renderTime |-> ToFixed2(now - startTime)]
    ELSE [success |-> FALSE, error |-> message,
          renderTime |-> ToFixed2(now - startTime)]

\* handler_catch with the error escaping the handler: no response is sent
handler_catch_escaping(j, jr, message) ==
  /\ job' = [job EXCEPT ![j] = [jr EXCEPT !.pc = "responded",
                                          !.caught = Append(@, message)]]
  /\ res' = res

\* catch (error) { ... return res.status(500).json(...) } entered from the
\* locals jr with the error's message
handler_catch(j, jr, message) ==
  /\ job' = [job EXCEPT ![j] = [jr EXCEPT !.pc = "responded",
                                          !.caught = Append(@, message),
                                          !.logged = Append(@, "Video render failed")]]
  /\ res' = [res EXCEPT ![j] = Append(@, [status |-> 500,
                                          body |-> ErrorBody(message, jr.startTime)])]

\* an entry of the call log: the call, how it ended ("ok", "error" for a
\* returned error, "nodata" for an empty result, "throw" for a raised
\* error) and the error's message
Call(name, result, message) == [name |-> name, result |-> result, message |-> message]

Called(j, entries) == calls' = [calls EXCEPT ![j] = @ \o entries]

\* how a call that resolves or rejects ended
Ended(name, r) ==
  IF r.throws THEN Call(name, "throw", r.message) ELSE Call(name, "ok", <<>>)

\* how a data-store query that resolves to { data, error } ended
Queried(name, r) ==
  IF Truthy(r.error) THEN Call(name, "error", ToStr(Get(r.error, "message")))
  ELSE IF ~Truthy(r.data) THEN Call(name, "nodata", <<>>)
  ELSE Call(name, "ok", <<>>)

\* Entry of the handler up to its first await: method check, body
\* destructuring and parameter validation.
Receive(j, method, body) ==
  /\ job[j].pc = "idle"
  /\ served < MaxRequests
  /\ served' = served + 1
  /\ UNCHANGED <<env, gen, health, now, listings, storage, tmpFiles, calls, webhookVars>>
  /\ LET jr == [IdleJob EXCEPT !.method = method, !.body = body, !.startTime = now]
         listingId == Get(body, "listingId")
         listingData == Get(body, "listingData")
     IN  IF method # "POST"
           THEN /\ res' = [res EXCEPT ![j] = Append(@,
                             [status |-> 405, body |-> [error |-> <<"Method not allowed">>]])]
                /\ job' = [job EXCEPT ![j] = [jr EXCEPT !.pc = "responded"]]
         ELSE IF body.t \in {"undefined", "null"}
           THEN handler_catch(j, jr,
                  <<"Cannot destructure property 'listingId' of 'req.body' as it is ",
                    body.t, ".">>)
         ELSE IF ~Truthy(listingId) /\ ~Truthy(listingData)
           THEN /\ res' = [res EXCEPT ![j] = Append(@,
                             [status |-> 400,
                              body |-> [error |->
                                <<"Missing required parameter: listingId or listingData">>]])]
                /\ job' = [job EXCEPT ![j] = [jr EXCEPT !.pc = "responded"]]
         ELSE /\ res' = res
              /\ job' = [job EXCEPT ![j] =
                   [jr EXCEPT !.listing = listingData,
                              !.pc = IF Truthy(listingId) /\ ~Truthy(listingData)
                                       THEN "fetchListing" ELSE "fetchProfile"]]

\* if (error || !data)
ListingFetchFailed(r) == Truthy(r.error) \/ ~Truthy(r.data)

\* `Failed to fetch listing: ${error?.message}`
FetchListingMessage(error) ==
  <<"Failed to fetch listing: ">> \o ToStr(Get(error, "message"))

\* await supabase.from('listings').select('*').eq('id', listingId).single()
FetchListing(j, r) ==
  /\ job[j].pc = "fetchListing"
  /\ r \in ListingLookups(listings, Get(job[j].body, "listingId"))
  /\ Called(j, <<Queried("listings.select", r)>>)
  /\ UNCHANGED <<env, gen, health, now, served, listings, storage, tmpFiles, webhookVars>>
  /\ IF ListingFetchFailed(r)
       THEN handler_catch(j, job[j], FetchListingMessage(r.error))
       ELSE /\ job' = [job EXCEPT ![j].listing = r.data, ![j].pc = "fetchProfile"]
            /\ res' = res

\* the profile used when the lookup gives no row
DefaultSeller ==
  JsObj([username |-> JsStr(<<"peermetals_seller">>),
         full_name |-> JsStr(<<"PeerMetals Seller">>)])

\* ResolveSeller without the fallback
ResolveSeller_noFallback(sellerProfile) == sellerProfile

\* const seller = sellerProfile || { ... }
ResolveSeller(sellerProfile) == Or(sellerProfile, DefaultSeller)

\* await supabase.from('profiles')...single()
FetchProfile(j, r) ==
  /\ job[j].pc = "fetchProfile"
  /\ r \in ProfileLookups(Get(job[j].listing, "user_id"))
  /\ Called(j, <<Queried("profiles.select", r)>>)
  /\ job' = [job EXCEPT ![j].seller = ResolveSeller(r.data), ![j].pc = "describe"]
  /\ UNCHANGED <<env, gen, health, now, served, listings, storage, tmpFiles, res, webhookVars>>

\* category: listing.tier1_category || listing.tier2_category
Category(listing) == Or(Get(listing, "tier1_category"), Get(listing, "tier2_category"))

\* the argument the handler passes to generateDetailedDescription
DescriptionInput(listing) ==
  JsObj([title |-> Get(listing, "title"),
         description |-> Get(listing, "description"),
         specifications |-> JsObj([category |-> Category(listing),
                                   condition |-> Get(listing, "condition"),
                                   weight |-> Get(listing, "weight"),
                                   purity |-> Get(listing, "purity"),
                                   year |-> Get(listing, "year")])])

\* const videoInputProps = { ... }
VideoInputProps(listing, seller, aiDescription) ==
  JsObj([listingTitle |-> Get(listing, "title"),
         listingDescription |-> JsStr(aiDescription),
         images |-> Or(Get(listing, "images"), JsArr(<<>>)),
         specifications |->
           JsObj([category |-> Category(listing),
                  condition |-> Get(listing, "condition"),
                  weight |-> IF Truthy(Get(listing, "weight"))
                               THEN JsStr(ToStr(Get(listing, "weight")) \o <<" ","o","z">>)
                               ELSE Undefined,
                  purity |-> Get(listing, "purity"),
                  year |-> Get(listing, "year")]),
         sellerName |-> Or(Get(seller, "full_name"), Get(seller, "username")),
         logoUrl |-> JsStr(<<"https://peermetals.com/peermetals.png">>)])

\* await generateDetailedDescription({...}); then the input props are built
Describe(j, svc) ==
  /\ job[j].pc = "describe"
  /\ svc \in ServiceOutcomes
  /\ UNCHANGED <<env, gen, health, now, served, listings, storage, tmpFiles, webhookVars>>
  /\ LET d == generateDetailedDescription(DescriptionInput(job[j].listing),
                                          env.hasGeminiKey, svc)
     IN  /\ Called(j, IF d.called
                        THEN <<Ended("generateContent", svc),
                               Ended("generateDetailedDescription", d.result)>>
                        ELSE <<Ended("generateDetailedDescription", d.result)>>)
         /\ IF d.result.throws
              THEN handler_catch(j, job[j], d.result.message)
              ELSE /\ job' = [job EXCEPT
                        ![j].props = VideoInputProps(job[j].listing, job[j].seller,
                                                     d.result.value),
                        ![j].pc = "bundle"]
                   /\ res' = res

\* Bundle retried when it rejects
Bundle_retried(j, r) ==
  /\ job[j].pc = "bundle"
  /\ r \in BundleOutcomes
  /\ calls' = [calls EXCEPT ![j] = @ \o <<IF r.throws
                                            THEN [name |-> "bundle", result |-> "throw",
                                                  message |-> r.message]
                                            ELSE [name |-> "bundle", result |-> "ok",
                                                  message |-> <<>>]>>]
  /\ UNCHANGED <<env, gen, health, now, served, listings, storage, tmpFiles, res, wh, wres, wcalls>>
  /\ job' = [job EXCEPT ![j].pc = IF r.throws THEN "bundle" ELSE "select"]

\* await bundle({...})
Bundle(j, r) ==
  /\ job[j].pc = "bundle"
  /\ r \in BundleOutcomes
  /\ Called(j, <<Ended("bundle", r)>>)
  /\ UNCHANGED <<env, gen, health, now, served, listings, storage, tmpFiles, webhookVars>>
  /\ IF r.throws
       THEN handler_catch(j, job[j], r.message)
       ELSE /\ job' = [job EXCEPT ![j].pc = "select"]
            /\ res' = res

\* `listing-${listing.id}-${Date.now()}.mp4`
OutputFileName(listing, clock) ==
  <<"listing-">> \o ToStr(Get(listing, "id")) \o <<"-", ToString(clock), ".mp4">>

\* path.join('/tmp', outputFileName)
OutputPath(fileName) == <<"/tmp/">> \o fileName

\* `video-reels/${outputFileName}`
StoragePath(fileName) == <<"video-reels/">> \o fileName

\* supabase.storage.from('listings').getPublicUrl(storagePath).data.publicUrl
PublicUrl(storagePath) ==
  <<"https://supabase.test/storage/v1/object/public/listings/">> \o storagePath

\* await selectComposition({...}); then the output file name is chosen
SelectComposition(j, r) ==
  /\ job[j].pc = "select"
  /\ r \in SelectOutcomes
  /\ Called(j, <<Ended("selectComposition", r)>>)
  /\ UNCHANGED <<env, gen, health, now, served, listings, storage, tmpFiles, webhookVars>>
  /\ IF r.throws
       THEN handler_catch(j, job[j], r.message)
       ELSE /\ job' = [job EXCEPT
                 ![j].outputFileName = OutputFileName(job[j].listing, now),
                 ![j].pc = "render"]
            /\ res' = res

\* RenderMedia with a rejected render swallowed: the job goes on to publish
RenderMedia_swallowed(j, r, partial) ==
  /\ job[j].pc = "render"
  /\ r \in RenderOutcomes
  /\ partial \in BOOLEAN
  /\ Called(j, <<Ended("renderMedia", r)>>)
  /\ UNCHANGED <<env, gen, health, now, served, listings, storage, res, webhookVars>>
  /\ tmpFiles' = IF ~r.throws \/ partial
                   THEN tmpFiles \cup {OutputPath(job[j].outputFileName)}
                   ELSE tmpFiles
  /\ job' = [job EXCEPT ![j].pc = "read"]

\* await renderMedia({... outputLocation: outputPath ...}); a render that
\* rejects may or may not have left a (partial) file behind
RenderMedia(j, r, partial) ==
  /\ job[j].pc = "render"
  /\ r \in RenderOutcomes
  /\ partial \in BOOLEAN
  /\ Called(j, <<Ended("renderMedia", r)>>)
  /\ UNCHANGED <<env, gen, health, now, served, listings, storage, webhookVars>>
  /\ tmpFiles' = IF ~r.throws \/ partial
                   THEN tmpFiles \cup {OutputPath(job[j].outputFileName)}
                   ELSE tmpFiles
  /\ IF r.throws
       THEN handler_catch(j, job[j], r.message)
       ELSE /\ job' = [job EXCEPT ![j].pc = "read"]
            /\ res' = res

\* what fs.readFileSync(path) and fs.unlinkSync(path) may do: they return
\* only when the file is there
FsOutcomes(path) ==
  (IF path \in tmpFiles THEN {Ok(<<>>)} ELSE {Throw(NoEntry)})
    \cup {Throw(m) : m \in FsErrors}

\* fs.readFileSync(outputPath)
ReadFile(j, r) ==
  /\ job[j].pc = "read"
  /\ r \in FsOutcomes(OutputPath(job[j].outputFileName))
  /\ Called(j, <<Ended("readFileSync", r)>>)
  /\ UNCHANGED <<env, gen, health, now, served, listings, storage, tmpFiles, webhookVars>>
  /\ IF r.throws
       THEN handler_catch(j, job[j], r.message)
       ELSE /\ job' = [job EXCEPT ![j].pc = "upload"]
            /\ res' = res

\* UploadResults with upsert: a path that is already taken is written again
UploadResults_upsert(path) == {JsNull} \cup UploadErrors

\* the error upload(path) may resolve with: null when the object is stored;
\* without upsert, a path that is already taken is refused
UploadResults(path) ==
  (IF path \in storage THEN {Duplicate} ELSE {JsNull}) \cup UploadErrors

\* UploadFailed with the check left out
UploadFailed_unchecked(uploadError) == FALSE

\* if (uploadError)
UploadFailed(uploadError) == Truthy(uploadError)

\* await supabase.storage.from('listings').upload(storagePath, videoBuffer);
\* on success the public URL is obtained
Upload(j, uploadError) ==
  /\ job[j].pc = "upload"
  /\ uploadError \in UploadResults(StoragePath(job[j].outputFileName))
  /\ UNCHANGED <<env, gen, health, now, served, listings, tmpFiles, webhookVars>>
  /\ LET storagePath == StoragePath(job[j].outputFileName)
         upload == IF uploadError = JsNull
                     THEN Call("storage.upload", "ok", <<>>)
                     ELSE Call("storage.upload", "error", ToStr(uploadError))
     IN  /\ storage' = IF uploadError = JsNull THEN storage \cup {storagePath} ELSE storage
         /\ IF UploadFailed(uploadError)
              THEN /\ Called(j, <<upload>>)
                   /\ handler_catch(j, job[j], <<"Upload failed: ">> \o ToStr(uploadError))
              ELSE /\ Called(j, <<upload, Call("getPublicUrl", "ok", <<>>)>>)
                   /\ job' = [job EXCEPT ![j].publicUrl = PublicUrl(storagePath),
                                         ![j].pc = "update"]
                   /\ res' = res

\* UpdateListing with the update error thrown instead of logged
UpdateListing_fatal(j, updateError) ==
  /\ job[j].pc = "update"
  /\ updateError \in {JsNull} \cup UpdateErrors
  /\ Called(j, <<Queried("listings.update", [data |-> EmptyObj, error |-> updateError])>>)
  /\ UNCHANGED <<env, gen, health, now, served, storage, tmpFiles, webhookVars>>
  /\ LET id == Get(job[j].listing, "id")
     IN  /\ listings' =
               IF updateError = JsNull /\ id.t = "string" /\ id.v \in DOMAIN listings
                 THEN [listings EXCEPT ![id.v].video_url = JsStr(job[j].publicUrl)]
                 ELSE listings
         /\ IF Truthy(updateError)
              THEN handler_catch(j, job[j], <<"Update failed: ">> \o ToStr(updateError))
              ELSE /\ job' = [job EXCEPT ![j].pc = "unlink"]
                   /\ res' = res

\* UpdateListing with the .eq('id', listing.id) filter left out: every row
\* gets the video URL
UpdateListing_allRows(j, updateError) ==
  /\ job[j].pc = "update"
  /\ updateError \in {JsNull} \cup UpdateErrors
  /\ Called(j, <<Queried("listings.update", [data |-> EmptyObj, error |-> updateError])>>)
  /\ UNCHANGED <<env, gen, health, now, served, storage, tmpFiles, res, webhookVars>>
  /\ listings' =
       IF updateError = JsNull
         THEN [i \in DOMAIN listings |->
                 [listings[i] EXCEPT !.video_url = JsStr(job[j].publicUrl)]]
         ELSE listings
  /\ job' = [job EXCEPT
        ![j].logged = IF Truthy(updateError)
                        THEN Append(@, "Failed to update listing with video URL")
                        ELSE @,
        ![j].pc = "unlink"]

\* await supabase.from('listings').update({ video_url: publicUrl })
\*   .eq('id', listing.id); an error is only logged
UpdateListing(j, updateError) ==
  /\ job[j].pc = "update"
  /\ updateError \in {JsNull} \cup UpdateErrors
  /\ Called(j, <<Queried("listings.update", [data |-> EmptyObj, error |-> updateError])>>)
  /\ UNCHANGED <<env, gen, health, now, served, storage, tmpFiles, res, webhookVars>>
  /\ LET id == Get(job[j].listing, "id")
     IN  /\ listings' =
               IF updateError = JsNull /\ id.t = "string" /\ id.v \in DOMAIN listings
                 THEN [listings EXCEPT ![id.v].video_url = JsStr(job[j].publicUrl)]
                 ELSE listings
         /\ job' = [job EXCEPT
               ![j].logged = IF Truthy(updateError)
                               THEN Append(@, "Failed to update listing with video URL")
                               ELSE @,
               ![j].pc = "unlink"]

\* fs.unlinkSync(outputPath); then the 200 response
Unlink(j, r) ==
  /\ job[j].pc = "unlink"
  /\ r \in FsOutcomes(OutputPath(job[j].outputFileName))
  /\ Called(j, <<Ended("unlinkSync", r)>>)
  /\ UNCHANGED <<env, gen, health, now, served, listings, storage, webhookVars>>
  /\ tmpFiles' = IF r.throws THEN tmpFiles
                 ELSE tmpFiles \ {OutputPath(job[j].outputFileName)}
  /\ IF r.throws
       THEN handler_catch(j, job[j], r.message)
       ELSE /\ job' = [job EXCEPT ![j].pc = "responded"]
            /\ res' = [res EXCEPT ![j] = Append(@,
                 [status |-> 200,
                  body |-> [success |-> TRUE,
                            videoUrl |-> job[j].publicUrl,
                            listingId |-> Get(job[j].listing, "id"),
                            renderTime |-> ToFixed2(now - job[j].startTime),
                            message |-> <<"Video rendered and uploaded successfully">>]])]

(***************************************************************************)
(* webhook/route.js                                                        *)
(***************************************************************************)
\* message.includes(needle), for a needle that is a piece of the message
Includes(message, needle) == \E i \in 1..Len(message) : message[i] = needle

\* validateWebhookPayload(body): true, or the error it throws
validateWebhookPayload(body) ==
  LET type == Get(body, "type")
      table == Get(body, "table")
      record == Get(body, "record")
  IN  IF body.t \in {"undefined", "null"}
        THEN Throw(<<"Cannot read properties of ", body.t, " (reading 'type')">>)
      ELSE IF ~Truthy(type) \/ type # JsStr(<<"INSERT">>)
        THEN Throw(<<"Invalid webhook type - ", "only INSERT events", " are supported">>)
      ELSE IF ~Truthy(table) \/ table # JsStr(<<"listings">>)
        THEN Throw(<<"Invalid table - ", "only listings table", " is supported">>)
      ELSE IF ~Truthy(record)
        THEN Throw(<<"Missing", " record data in webhook payload">>)
      ELSE IF Get(record, "status") # JsStr(<<"active">>)
        THEN Throw(<<"Listing status '">> \o ToStr(Get(record, "status"))
                   \o <<"' ", "not active", " - skipping video generation">>)
      ELSE IF ~Truthy(Get(record, "id")) THEN Throw(<<"Missing", " listing ID">>)
      ELSE IF ~Truthy(Get(record, "title")) THEN Throw(<<"Missing", " listing title">>)
      ELSE IF ~Truthy(Get(record, "user_id")) THEN Throw(<<"Missing", " user ID">>)
      ELSE Ok(TRUE)

\* WebhookErrorResponse with a non-active status no longer treated as a skip
WebhookErrorResponse_statusNotSkipped(message) ==
  IF \/ Includes(message, "only INSERT events")
     \/ Includes(message, "only listings table")
    THEN [status |-> 200,
          body |-> [success |-> TRUE, message |-> <<"Webhook skipped">>,
                    reason |-> message]]
    ELSE [status |-> IF Includes(message, "Missing") THEN 400 ELSE 500,
          body |-> [success |-> FALSE, error |-> message]]

\* the response built by the catch block of POST
WebhookErrorResponse(message) ==
  IF \/ Includes(message, "not active")
     \/ Includes(message, "only INSERT events")
     \/ Includes(message, "only listings table")
    THEN [status |-> 200,
          body |-> [success |-> TRUE, message |-> <<"Webhook skipped">>,
                    reason |-> message]]
    ELSE [status |-> IF Includes(message, "Missing") THEN 400 ELSE 500,
          body |-> [success |-> FALSE, error |-> message]]

\* catch (error) { ... } of POST, entered from the locals w
POST_catch(w, message) ==
  /\ wres' = Append(wres, WebhookErrorResponse(message))
  /\ wh' = [w EXCEPT !.pc = "responded"]

\* the record of a draft listing
DraftCoin == [GoldCoin EXCEPT !.status = JsStr(<<"draft">>)]

\* the bodies req.json() may resolve to; Undefined stands for a body that
\* is not JSON (req.json() rejects)
WebhookBodies ==
  { Undefined, JsNull,
    JsObj([type |-> JsStr(<<"INSERT">>), table |-> JsStr(<<"listings">>),
           record |-> JsObj(GoldCoin)]),
    JsObj([type |-> JsStr(<<"INSERT">>), table |-> JsStr(<<"listings">>),
           record |-> JsObj([GoldCoin EXCEPT !.user_id = JsStr(<<"u","9">>),
                                             !.weight = Undefined])]),
    JsObj([type |-> JsStr(<<"INSERT">>), table |-> JsStr(<<"listings">>),
           record |-> JsObj([GoldCoin EXCEPT !.user_id = JsStr(UserU2),
                                             !.weight = JsNum(<<"0">>)])]),
    JsObj([type |-> JsStr(<<"insert">>), table |-> JsStr(<<"listings">>),
           record |-> JsObj(DraftCoin)]),
    JsObj([type |-> JsStr(<<"INSERT">>), table |-> JsStr(<<"profiles">>),
           record |-> JsObj(GoldCoin)]),
    JsObj([type |-> JsStr(<<"INSERT">>), table |-> JsStr(<<"listings">>)]),
    JsObj([type |-> JsStr(<<"INSERT">>), table |-> JsStr(<<"listings">>),
           record |-> JsObj(DraftCoin)]),
    JsObj([type |-> JsStr(<<"INSERT">>), table |-> JsStr(<<"listings">>),
           record |-> JsObj([GoldCoin EXCEPT !.id = Undefined])]),
    JsObj([type |-> JsStr(<<"INSERT">>), table |-> JsStr(<<"listings">>),
           record |-> JsObj([GoldCoin EXCEPT !.title = JsStr(<<>>)])]),
    JsObj([type |-> JsStr(<<"INSERT">>), table |-> JsStr(<<"listings">>),
           record |-> JsObj([GoldCoin EXCEPT !.user_id = JsNull])]) }

\* await cookies(); createRouteHandlerClient(...): return or throw
ClientOutcomes ==
  { Ok(<<>>), Throw(<<"cookies was called outside a request scope">>),
    Throw(<<"Missing", " Supabase environment variables">>) }

\* WReceive with the data-store client created before the payload is
\* validated
WReceive_clientFirst(body) ==
  /\ wh.pc = "idle"
  /\ body \in WebhookBodies
  /\ wcalls' = Append(wcalls, [name |-> "createRouteHandlerClient", result |-> "ok",
                               message |-> <<>>])
  /\ UNCHANGED <<env, gen, health, now, renderVars>>
  /\ IF body = Undefined
       THEN POST_catch([wh EXCEPT !.body = body], <<"Unexpected end of JSON input">>)
       ELSE LET v == validateWebhookPayload(body)
            IN  IF v.throws
                  THEN POST_catch([wh EXCEPT !.body = body], v.message)
                  ELSE /\ wh' = [wh EXCEPT !.pc = "fetchProfile", !.body = body,
                                          !.listing = Get(body, "record")]
                       /\ wres' = wres

\* Entry of POST up to its first await after the body is read:
\* body = await req.json(); validateWebhookPayload(body)
WReceive(body) ==
  /\ wh.pc = "idle"
  /\ body \in WebhookBodies
  /\ wcalls' = wcalls
  /\ UNCHANGED <<env, gen, health, now, renderVars>>
  /\ IF body = Undefined
       THEN POST_catch([wh EXCEPT !.body = body], <<"Unexpected end of JSON input">>)
       ELSE LET v == validateWebhookPayload(body)
            IN  IF v.throws
                  THEN POST_catch([wh EXCEPT !.body = body], v.message)
                  ELSE /\ wh' = [wh EXCEPT !.pc = "client", !.body = body,
                                          !.listing = Get(body, "record")]
                       /\ wres' = wres

\* const cookieStore = await cookies(); createRouteHandlerClient(...)
WClient(r) ==
  /\ wh.pc = "client"
  /\ r \in ClientOutcomes
  /\ wcalls' = Append(wcalls, Ended("createRouteHandlerClient", r))
  /\ UNCHANGED <<env, gen, health, now, renderVars>>
  /\ IF r.throws
       THEN POST_catch(wh, r.message)
       ELSE /\ wh' = [wh EXCEPT !.pc = "fetchProfile"]
            /\ wres' = wres

\* the profile used by the webhook when the lookup fails or gives no row
WebhookDefaultSeller ==
  JsObj([username |-> JsStr(<<"peermetals_seller">>),
         full_name |-> JsStr(<<"PeerMetals Seller">>),
         avatar_url |-> JsNull,
         reputation |-> JsNum(<<"0">>),
         is_verified |-> [t |-> "boolean", v |-> <<"false">>]])

\* await supabase.from('profiles')...single(); fallback on error or no row
WFetchProfile(r) ==
  /\ wh.pc = "fetchProfile"
  /\ r \in ProfileLookups(Get(wh.listing, "user_id"))
  /\ wcalls' = Append(wcalls, Queried("profiles.select", r))
  /\ wh' = [wh EXCEPT !.seller = IF Truthy(r.error) \/ ~Truthy(r.data)
                                   THEN WebhookDefaultSeller ELSE r.data,
                      !.pc = "generate"]
  /\ UNCHANGED <<env, gen, health, now, renderVars, wres>>

\* s.replace(/<[^>]*>/g, '') : drop every "<...>" that is closed
RECURSIVE StripTags(_)
StripTags(s) ==
  IF s = <<>> THEN <<>>
  ELSE IF Head(s) = "<" /\ \E k \in 2..Len(s) : s[k] = ">"
    THEN StripTags(SubSeq(s, 1 + (CHOOSE k \in 2..Len(s) :
                                    s[k] = ">" /\ \A m \in 2..(k - 1) : s[m] # ">"),
                          Len(s)))
  ELSE <<Head(s)>> \o StripTags(Tail(s))

ListingDescriptionMin == 10
ListingDescriptionMax == 150
ListingDescriptionKeep == 147

\* generateListingDescription(listing)
generateListingDescription(listing) ==
  LET description == Get(listing, "description")
      plainText == StripTags(description.v)
  IN  IF description.t = "array" /\ Len(description.v) > ListingDescriptionMin
        THEN \* description.replace is not a function: the catch block's text
             <<"Premium precious metal item available now.">>
      ELSE IF Truthy(description) /\ description.t = "string"
         /\ Len(description.v) > ListingDescriptionMin
        THEN IF Len(plainText) > ListingDescriptionMax
               THEN Substring0(plainText, ListingDescriptionKeep) \o Ellipsis
               ELSE plainText
        ELSE <<"D","i","s","c","o","v","e","r"," ","t","h","i","s"," ",
               "e","x","q","u","i","s","i","t","e"," ">>
             \o ToStr(Or(Get(listing, "tier1_category"), JsStr(DefaultCategory)))
             \o <<" ","i","t","e","m","."," ","Q","u","a","l","i","t","y"," ",
                  "g","u","a","r","a","n","t","e","e","d",".">>

\* const videoData = { ... } in generateVideoReel
VideoData(listing, sellerProfile) ==
  JsObj([listingTitle |-> Or(Get(listing, "title"), JsStr(<<"New Listing">>)),
         listingDescription |-> JsStr(generateListingDescription(listing)),
         images |-> Or(Get(listing, "images"), JsArr(<<>>)),
         specifications |->
           JsObj([category |-> Category(listing),
                  condition |-> Get(listing, "condition"),
                  weight |-> IF Truthy(Get(listing, "weight"))
                               THEN JsStr(ToStr(Get(listing, "weight")) \o <<" ","o","z">>)
                               ELSE Undefined,
                  purity |-> Get(listing, "purity"),
                  year |-> Get(listing, "year")]),
         sellerName |-> Or(Get(sellerProfile, "full_name"),
                           Get(sellerProfile, "username")),
         logoUrl |-> IF Truthy(env.APP_URL)
                       THEN JsStr(ToStr(env.APP_URL) \o <<"/peermetals.png">>)
                       ELSE JsStr(<<"https://peermetals.com/peermetals.png">>)])

\* WGenerate with the prepared job rendered and published on the spot
WGenerate_rendering(r) ==
  /\ wh.pc = "generate"
  /\ r \in ClientOutcomes
  /\ UNCHANGED <<env, gen, health, now, served, listings, tmpFiles, job, res, calls>>
  /\ IF r.throws
       THEN /\ wcalls' = Append(wcalls, Ended("createRouteHandlerClient", r))
            /\ storage' = storage
            /\ POST_catch(wh, <<"Failed to generate video reel">>)
       ELSE /\ wcalls' = wcalls \o <<Ended("createRouteHandlerClient", r),
                                     Call("renderMedia", "ok", <<>>),
                                     Call("storage.upload", "ok", <<>>)>>
            /\ storage' = storage \cup {StoragePath(OutputFileName(wh.listing, now))}
            /\ wh' = [wh EXCEPT !.pc = "responded"]
            /\ wres' = Append(wres,
                 [status |-> 200,
                  body |-> [success |-> TRUE,
                            message |-> <<"Video reel generation queued successfully">>,
                            listingId |-> Get(wh.listing, "id"),
                            videoPath |-> StoragePath(OutputFileName(wh.listing, now)),
                            videoData |-> VideoData(wh.listing, wh.seller)]])

\* await generateVideoReel(listing, seller): the job is prepared, nothing is
\* rendered; an error inside is logged and gives null.  Then the response.
WGenerate(r) ==
  /\ wh.pc = "generate"
  /\ r \in ClientOutcomes
  /\ wcalls' = Append(wcalls, Ended("createRouteHandlerClient", r))
  /\ UNCHANGED <<env, gen, health, now, renderVars>>
  /\ IF r.throws
       THEN POST_catch(wh, <<"Failed to generate video reel">>)
       ELSE /\ wh' = [wh EXCEPT !.pc = "responded"]
            /\ wres' = Append(wres,
                 [status |-> 200,
                  body |-> [success |-> TRUE,
                            message |-> <<"Video reel generation queued successfully">>,
                            listingId |-> Get(wh.listing, "id"),
                            videoPath |-> StoragePath(OutputFileName(wh.listing, now)),
                            videoData |-> VideoData(wh.listing, wh.seller)]])

\* the invocation is over
WReturn ==
  /\ wh.pc = "responded"
  /\ wh' = IdleWebhook
  /\ wres' = <<>>
  /\ wcalls' = <<>>
  /\ UNCHANGED <<env, gen, health, now, renderVars>>

\* the invocation is over: its locals are gone
Return(j) ==
  /\ job[j].pc = "responded"
  /\ job' = [job EXCEPT ![j] = IdleJob]
  /\ res' = [res EXCEPT ![j] = <<>>]
  /\ calls' = [calls EXCEPT ![j] = <<>>]
  /\ UNCHANGED <<env, gen, health, now, served, listings, storage, tmpFiles, webhookVars>>

\* time passes
Tick ==
  /\ now < MaxClock
  /\ now' = now + 1
  /\ UNCHANGED <<env, gen, health, renderVars, webhookVars>>

\* requests are served one at a time
NoneRunning == wh.pc = "idle" /\ \A k \in Jobs : job[k].pc = "idle"

Next ==
  \/ \E j \in Jobs, m \in Methods, b \in RenderBodies : NoneRunning /\ Receive(j, m, b)
  \/ \E j \in Jobs :
       \E r \in ListingLookups(listings, Get(job[j].body, "listingId")) : FetchListing(j, r)
  \/ \E j \in Jobs :
       \E r \in ProfileLookups(Get(job[j].listing, "user_id")) : FetchProfile(j, r)
  \/ \E j \in Jobs, svc \in ServiceOutcomes : Describe(j, svc)
  \/ \E j \in Jobs, r \in BundleOutcomes : Bundle(j, r)
  \/ \E j \in Jobs, r \in SelectOutcomes : SelectComposition(j, r)
  \/ \E j \in Jobs, r \in RenderOutcomes, partial \in BOOLEAN : RenderMedia(j, r, partial)
  \/ \E j \in Jobs :
       \E r \in FsOutcomes(OutputPath(job[j].outputFileName)) : ReadFile(j, r)
  \/ \E j \in Jobs :
       \E e \in UploadResults(StoragePath(job[j].outputFileName)) : Upload(j, e)
  \/ \E j \in Jobs, e \in {JsNull} \cup UpdateErrors : UpdateListing(j, e)
  \/ \E j \in Jobs :
       \E r \in FsOutcomes(OutputPath(job[j].outputFileName)) : Unlink(j, r)
  \/ \E j \in Jobs : Return(j)
  \/ \E b \in WebhookBodies : NoneRunning /\ WReceive(b)
  \/ \E r \in ClientOutcomes : WClient(r)
  \/ \E r \in ProfileLookups(Get(wh.listing, "user_id")) : WFetchProfile(r)
  \/ \E r \in ClientOutcomes : WGenerate(r)
  \/ WReturn
  \/ Tick

Spec == Init /\ [][Next]_vars

(***************************************************************************)
(* The description functions called on their own: every listing argument   *)
(* and every answer of the text-generation service considered.             *)
(***************************************************************************)
Digits == <<"0","1","2","3","4","5","6","7","8","9">>

\* a text of n characters
Text(n) == [i \in 1..n |-> Digits[(i % 10) + 1]]

LongCategory == [i \in 1..MaxCategoryLen |-> UpperChars[((i - 1) % 26) + 1]]

\* listing.specifications: any subset of the fields, a category that is a
\* short string, a long string or a number; or no specifications at all
GenSpecifications ==
  { JsObj([category |-> c, condition |-> k, purity |-> p, year |-> y]) :
      c \in {Undefined, JsStr(<<"G","o","l","d">>), JsStr(LongCategory), JsNum(<<"5">>)},
      k \in {Undefined, JsStr(<<"M","i","n","t">>)},
      p \in {Undefined, JsStr(<<".","9","9","9">>)},
      y \in {Undefined, JsStr(<<"2","0","2","4">>)} }
    \cup {Undefined}

\* the listing argument; its description is absent, markup or not a string
GenListings ==
  { JsObj([title |-> JsStr(<<"T">>), description |-> d, specifications |-> sp]) :
      d \in {Undefined, JsStr(<<"<","b",">","f","i","n","e","<","/","b",">">>),
             JsNum(<<"7">>)},
      sp \in GenSpecifications }

\* what model.generateContent(prompt) may do: raise, or answer a text that
\* is short, quoted, padded, or longer than the budgets
GenServiceOutcomes ==
  ServiceOutcomes \cup
  { Ok(<<" ">> \o Text(DetailedBudget) \o <<"\n">>),
    Ok(<<"\"">> \o Text(DetailedBudget + 1) \o <<"\"">>),
    Ok(Text(ShortPromptBudget + 1)),
    Ok(Text(ShortBudget)),
    Ok(Text(MaxTextLen)),
    \* a quote at one end only, and a doubled pair
    Ok(<<"\"","R","a","r","e"," ","g","o","l","d",".">>),
    Ok(<<"F","o","r"," ","c","o","l","l","e","c","t","o","r","s","'">>),
    Ok(<<"\"","\"","R","a","r","e","\"","\"">>) }

\* the record of a call that returned
Returned(fn, listing, svc, d) ==
  [pc |-> "returned", fn |-> fn, listing |-> listing,
   svc |-> IF d.called THEN svc ELSE Undefined,
   result |-> d.result, called |-> d.called]

\* await generateVideoDescription(listing)
CallVideoDescription(listing, svc) ==
  /\ gen.pc = "idle"
  /\ listing \in GenListings
  /\ svc \in GenServiceOutcomes
  /\ gen' = Returned("generateVideoDescription", listing, svc,
                     generateVideoDescription(listing, env.hasGeminiKey, svc))
  /\ UNCHANGED <<env, health, now, renderVars, webhookVars>>

\* await generateDetailedDescription(listing)
CallDetailedDescription(listing, svc) ==
  /\ gen.pc = "idle"
  /\ listing \in GenListings
  /\ svc \in GenServiceOutcomes
  /\ gen' = Returned("generateDetailedDescription", listing, svc,
                     generateDetailedDescription(listing, env.hasGeminiKey, svc))
  /\ UNCHANGED <<env, health, now, renderVars, webhookVars>>

\* the caller has taken the result
GenReturn ==
  /\ gen.pc = "returned"
  /\ gen' = IdleGen
  /\ UNCHANGED <<env, health, now, renderVars, webhookVars>>

GenNext ==
  \/ \E l \in GenListings, svc \in GenServiceOutcomes : CallVideoDescription(l, svc)
  \/ \E l \in GenListings, svc \in GenServiceOutcomes : CallDetailedDescription(l, svc)
  \/ GenReturn

GenSpec == Init /\ [][GenNext]_vars

(***************************************************************************)
(* Vocabulary of the properties.                                           *)
(***************************************************************************)
Responded(j) == job[j].pc = "responded"
Response(j) == res[j][1]
ListingId(j) == Get(job[j].body, "listingId")
ListingData(j) == Get(job[j].body, "listingData")

Has(log, name) == \E i \in 1..Len(log) : log[i].name = name
HasResult(log, name, results) ==
  \E i \in 1..Len(log) : log[i].name = name /\ log[i].result \in results
Count(log, name) == Cardinality({i \in 1..Len(log) : log[i].name = name})
Pos(log, name) == CHOOSE i \in 1..Len(log) : log[i].name = name
LastCall(log) == log[Len(log)]

\* the text sub occurs in the text
Contains(text, sub) ==
  \E i \in 0..(Len(text) - Len(sub)) : SubSeq(text, i + 1, i + Len(sub)) = sub

\* the steps of one render job, in the order the pipeline prescribes
PipelineSteps ==
  <<"listings.select", "profiles.select", "generateDetailedDescription", "bundle",
    "selectComposition", "renderMedia", "storage.upload", "getPublicUrl",
    "listings.update", "unlinkSync">>
IsPipelineStep(c) == \E k \in 1..Len(PipelineSteps) : PipelineSteps[k] = c.name
Rank(name) == CHOOSE k \in 1..Len(PipelineSteps) : PipelineSteps[k] = name
Steps(j) == SelectSeq(calls[j], IsPipelineStep)

\* the steps of job j are a run of consecutive pipeline steps that starts
\* with the listing fetch exactly when only an id was given, each step at
\* most once; the response comes last
InPipelineOrder(j) ==
  LET s == Steps(j)
  IN  /\ \A i \in 2..Len(s) : Rank(s[i].name) = Rank(s[i - 1].name) + 1
      /\ s # <<>> =>
           Rank(s[1].name) = (IF Truthy(ListingId(j)) /\ ~Truthy(ListingData(j))
                                THEN 1 ELSE 2)
      /\ \A k \in 1..Len(PipelineSteps) : Count(calls[j], PipelineSteps[k]) <= 1
      /\ Has(calls[j], "renderMedia") =>
           /\ HasResult(calls[j], "bundle", {"ok"})
           /\ HasResult(calls[j], "selectComposition", {"ok"})
      /\ res[j] # <<>> => Responded(j)
      /\ (Responded(j) /\ Response(j).status = 200) =>
           (s # <<>> /\ LastCall(s).name = "unlinkSync")

(***************************************************************************)
(* Properties of the render endpoint.                                      *)
(***************************************************************************)

\* C1: a request whose method is not POST is answered 405, and a POST whose
\* body carries neither listingId nor listingData is answered 400; in both
\* cases the handler made no external call at all.  (Refuted: a POST with
\* no body is answered 500.)
C1_ClientErrorsRejected ==
  \A j \in Jobs :
    Responded(j) =>
      /\ job[j].method # "POST" =>
           (Len(res[j]) = 1 /\ Response(j).status = 405 /\ calls[j] = <<>>)
      /\ (job[j].method = "POST" /\ ~Truthy(ListingId(j)) /\ ~Truthy(ListingData(j))) =>
           (Len(res[j]) = 1 /\ Response(j).status = 400 /\ calls[j] = <<>>)

\* C2: failures never raise past the boundary of the render handler: an
\* invocation sends no response before it finishes and exactly one when it
\* finishes, whatever the body and whichever step failed; every error raised
\* inside the handler is answered 500 with success = false and the error's
\* message, and only raised errors are answered 500.
C2_NeverRaisesPastBoundary ==
  \A j \in Jobs :
    /\ Len(res[j]) = (IF Responded(j) THEN 1 ELSE 0)
    /\ Len(job[j].caught) <= 1
    /\ job[j].caught # <<>> =>
         /\ Responded(j)
         /\ Response(j).status = 500
         /\ Response(j).body.success = FALSE
         /\ Response(j).body.error = job[j].caught[1]
    /\ Responded(j) =>
         /\ Response(j).status \in {200, 400, 405, 500}
         /\ Response(j).status = 500 => job[j].caught # <<>>
    /\ (calls[j] # <<>> /\ LastCall(calls[j]).result = "throw") => job[j].caught # <<>>

\* C2 witness: the temp-file deletion threw and the job answered 500
C2_Witness ==
  \E j \in Jobs :
    /\ Responded(j) /\ Response(j).status = 500
    /\ HasResult(calls[j], "unlinkSync", {"throw"})

\* C3 as stated: the steps of a render job occur only in the pipeline's
\* order, each at most once, rendering only after bundling and composition
\* resolution succeeded, and no step starts before its predecessor has
\* returned successfully.  (Refuted: the description step starts after a
\* seller-profile lookup that returned an error.)
C3_StrictOrderAllSucceeded ==
  \A j \in Jobs :
    /\ InPipelineOrder(j)
    /\ \A i \in 1..(Len(Steps(j)) - 1) : Steps(j)[i].result = "ok"

\* C3 amended: the steps of a render job occur only in the pipeline's order,
\* each at most once, rendering only after bundling and composition
\* resolution succeeded; no step starts before its predecessor has returned,
\* and every predecessor returned successfully except that the seller-profile
\* lookup and the listing-record update may have returned an error or an
\* empty result.
C3_StrictOrder ==
  \A j \in Jobs :
    /\ InPipelineOrder(j)
    /\ \A i \in 1..(Len(Steps(j)) - 1) :
         \/ Steps(j)[i].result = "ok"
         \/ /\ Steps(j)[i].name \in {"profiles.select", "listings.update"}
            /\ Steps(j)[i].result \in {"error", "nodata"}

\* C3 witness: a job that fetched its listing ran every step and answered 200
C3_Witness ==
  \E j \in Jobs :
    /\ Responded(j) /\ Response(j).status = 200
    /\ Len(Steps(j)) = Len(PipelineSteps)
    /\ HasResult(calls[j], "profiles.select", {"error"})

\* C4: when bundling, composition resolution or rendering fails, the job
\* answers 500 with the underlying error message, and in that job no upload
\* is attempted and the listing's video_url is not written.
C4_RenderFailurePublishesNothing ==
  \A j \in Jobs :
    \A i \in 1..Len(calls[j]) :
      (calls[j][i].name \in {"bundle", "selectComposition", "renderMedia"}
         /\ calls[j][i].result = "throw") =>
        /\ Responded(j)
        /\ Response(j).status = 500
        /\ Response(j).body.error = calls[j][i].message
        /\ ~Has(calls[j], "readFileSync")
        /\ ~Has(calls[j], "storage.upload")
        /\ ~Has(calls[j], "listings.update")

\* C4 witness: the render was rejected and the job answered 500
C4_Witness ==
  \E j \in Jobs :
    /\ Responded(j) /\ Response(j).status = 500
    /\ HasResult(calls[j], "renderMedia", {"throw"})

\* C5: when the storage upload returns an error, the job answers 500 with
\* success = false and the listing's video_url is not updated in that job;
\* every video_url the store holds is the public URL of a stored object.
C5_UploadFailureIsFatal ==
  /\ \A j \in Jobs :
       HasResult(calls[j], "storage.upload", {"error"}) =>
         /\ Responded(j)
         /\ Response(j).status = 500
         /\ Response(j).body.success = FALSE
         /\ ~Has(calls[j], "getPublicUrl")
         /\ ~Has(calls[j], "listings.update")
  /\ \A id \in DOMAIN listings :
       listings[id].video_url # JsNull =>
         \E path \in storage : listings[id].video_url = JsStr(PublicUrl(path))

\* C5 witness: the upload was refused and the job answered 500
C5_Witness ==
  \E j \in Jobs :
    /\ Responded(j) /\ Response(j).status = 500
    /\ HasResult(calls[j], "storage.upload", {"error"})

\* C6: when the upload succeeds but the listing-record update fails, the job
\* still answers 200 with success = true and the public URL of the uploaded
\* video, and the upload is not rolled back.  (Refuted: a deletion of the
\* temp file that throws turns the answer into 500.)
C6_UpdateFailureStillSucceeds ==
  \A j \in Jobs :
    (Responded(j) /\ HasResult(calls[j], "storage.upload", {"ok"})
       /\ HasResult(calls[j], "listings.update", {"error"})) =>
      /\ Response(j).status = 200
      /\ Response(j).body.success = TRUE
      /\ Response(j).body.videoUrl = PublicUrl(StoragePath(job[j].outputFileName))
      /\ StoragePath(job[j].outputFileName) \in storage

\* C7: after a successful upload the deletion of the local temp file is
\* attempted exactly once, whether the listing-record update succeeded or
\* failed, after the update attempt and before the response.
C7_DeletionAttemptedOnce ==
  \A j \in Jobs :
    /\ Count(calls[j], "unlinkSync") <= 1
    /\ (Responded(j) /\ HasResult(calls[j], "storage.upload", {"ok"})) =>
         /\ Count(calls[j], "unlinkSync") = 1
         /\ Has(calls[j], "listings.update")
         /\ Pos(calls[j], "listings.update") < Pos(calls[j], "unlinkSync")
         /\ Pos(calls[j], "unlinkSync") = Len(calls[j])
    /\ (res[j] # <<>> /\ Response(j).status = 200) =>
         HasResult(calls[j], "unlinkSync", {"ok"})

\* C7 witness: the update failed, the file was deleted and the job answered
C7_Witness ==
  \E j \in Jobs :
    /\ Responded(j) /\ Response(j).status = 200
    /\ HasResult(calls[j], "listings.update", {"error"})
    /\ HasResult(calls[j], "unlinkSync", {"ok"})

\* C8: in every job in which rendering produced a local temp file, that file
\* has been deleted by the time the response is sent.  (Refuted: a failed
\* file read or upload leaves the file on disk.)
C8_TempFileDeletedOnEveryOutcome ==
  \A j \in Jobs :
    (Responded(j) /\ HasResult(calls[j], "renderMedia", {"ok"})) =>
      OutputPath(job[j].outputFileName) \notin tmpFiles

\* C9: a render request with only a listingId that has no row in the store
\* is answered 500 with an error message that contains the requested id, and
\* no later step is executed.  (Refuted: the message carries the store's
\* error text, not the id.)
C9_ListingNotFoundNamesId ==
  \A j \in Jobs :
    (Has(calls[j], "listings.select") /\ ListingId(j).v \notin DOMAIN listings) =>
      /\ Responded(j)
      /\ Response(j).status = 500
      /\ Contains(Response(j).body.error, ToStr(ListingId(j)))
      /\ Len(calls[j]) = 1

\* C10: in both entry points, when the seller-profile lookup returns an
\* error or no row the job does not fail; it goes on with the fixed default
\* profile (username 'peermetals_seller', full_name 'PeerMetals Seller').
C10_SellerProfileFallback ==
  /\ \A j \in Jobs :
       HasResult(calls[j], "profiles.select", {"error", "nodata"}) =>
         /\ Get(job[j].seller, "username") = JsStr(<<"peermetals_seller">>)
         /\ Get(job[j].seller, "full_name") = JsStr(<<"PeerMetals Seller">>)
         /\ job[j].caught = <<>> \/ LastCall(calls[j]).name # "profiles.select"
  /\ HasResult(wcalls, "profiles.select", {"error", "nodata"}) =>
       /\ Get(wh.seller, "username") = JsStr(<<"peermetals_seller">>)
       /\ Get(wh.seller, "full_name") = JsStr(<<"PeerMetals Seller">>)
       /\ wh.pc = "responded" => LastCall(wcalls).name # "profiles.select"

\* C10 witness: a render job whose profile lookup failed got as far as the
\* success response, with the default seller's name in the input props
C10_Witness ==
  \E j \in Jobs :
    /\ Responded(j) /\ Response(j).status = 200
    /\ HasResult(calls[j], "profiles.select", {"error"})
    /\ Get(job[j].props, "sellerName") = JsStr(<<"PeerMetals Seller">>)

(***************************************************************************)
(* Properties of the seller name and of the webhook.                       *)
(***************************************************************************)
\* the webhook answered 200 with a prepared job
Prepared == wh.pc = "responded" /\ wres[1].status = 200 /\ "videoData" \in DOMAIN wres[1].body

NonEmptyString(x) == x.t = "string" /\ x.v # <<>>

\* C11: the sellerName of the video input bag is the profile's full name if
\* non-empty, else its username if non-empty, else a fixed default label, so
\* it is a non-empty string for every profile, in both entry points.
\* (Refuted: a found profile with no full name and an empty username gives an
\* empty sellerName; the default is used only when no profile row is found.)
C11_SellerNameNeverEmpty ==
  /\ \A j \in Jobs :
       job[j].props # Undefined => NonEmptyString(Get(job[j].props, "sellerName"))
  /\ Prepared => NonEmptyString(Get(wres[1].body.videoData, "sellerName"))

\* the webhook has answered
WResponded == wh.pc = "responded"
WResponse == wres[1]

\* the webhook answered "skipped"
Skipped ==
  /\ WResponse.status = 200
  /\ WResponse.body.success = TRUE
  /\ WResponse.body.message = <<"Webhook skipped">>
  /\ "reason" \in DOMAIN WResponse.body

\* the parts of the envelope the validation looks at
WType == Get(wh.body, "type")
WTable == Get(wh.body, "table")
WRecord == Get(wh.body, "record")
HasRequiredFields(record) ==
  Truthy(Get(record, "id")) /\ Truthy(Get(record, "title")) /\ Truthy(Get(record, "user_id"))

\* the body is JSON and the validation rejects it
FailsValidation == wh.body # Undefined /\ validateWebhookPayload(wh.body).throws

\* C12: webhook validation precedes every side effect: for a body that is
\* not JSON or fails validation (wrong type, wrong table, record missing,
\* status not active, record without id, title or user_id) the handler
\* answers at once, without having created the data-store client, looked up
\* a profile or prepared a job.
C12_ValidationBeforeSideEffects ==
  (wh.pc # "idle" /\ (wh.body = Undefined \/ FailsValidation)) =>
    /\ WResponded
    /\ Len(wres) = 1
    /\ wcalls = <<>>
    /\ wh.seller = Undefined

\* C12 witness: a record without an id was refused with 400
C12_Witness ==
  /\ WResponded
  /\ WType = JsStr(<<"INSERT">>) /\ WTable = JsStr(<<"listings">>)
  /\ Truthy(WRecord) /\ ~Truthy(Get(WRecord, "id"))
  /\ WResponse.status = 400
  /\ wcalls = <<>>

\* C13: webhook validation errors are never a 500: for every JSON body,
\* null included, a wrong type, a wrong table or a status that is not active
\* is answered 200 "Webhook skipped" with a reason, a missing record or a
\* record without id, title or user_id is answered 400, and no validation
\* failure is answered 500.  (Refuted: a null body is answered 500.)
C13_ValidationNever500 ==
  (WResponded /\ FailsValidation) =>
    /\ WResponse.status # 500
    /\ IF \/ WType # JsStr(<<"INSERT">>)
          \/ WTable # JsStr(<<"listings">>)
          \/ (Truthy(WRecord) /\ Get(WRecord, "status") # JsStr(<<"active">>))
         THEN Skipped
         ELSE WResponse.status = 400

\* an envelope for the listings table whose record has id, title and owner
\* and the status "draft"
DraftEnvelope ==
  /\ WTable = JsStr(<<"listings">>)
  /\ HasRequiredFields(WRecord)
  /\ Get(WRecord, "status") = JsStr(<<"draft">>)

\* C14 as stated: a webhook POST with type "insert", table "listings" and a
\* record with id, title and user_id whose status is "draft" is answered 200
\* with success = true, message "Webhook skipped" and a reason that contains
\* "not active".  (Refuted: the type is compared with "INSERT"; for "insert"
\* the reason names the unsupported event type.)
C14_LowercaseInsertDraftSkipped ==
  (WResponded /\ WType = JsStr(<<"insert">>) /\ DraftEnvelope) =>
    /\ Skipped
    /\ Includes(WResponse.body.reason, "not active")

\* C14 amended: a webhook POST with type "INSERT", table "listings" and a
\* record with id, title and user_id whose status is "draft" is answered 200
\* with success = true, message "Webhook skipped" and a reason that contains
\* "not active"; with type "insert" the answer is the same but for the
\* reason, which says that only INSERT events are supported.
C14_DraftSkipped ==
  /\ (WResponded /\ WType = JsStr(<<"INSERT">>) /\ DraftEnvelope) =>
       /\ Skipped
       /\ Includes(WResponse.body.reason, "not active")
       /\ Contains(WResponse.body.reason, <<"Listing status '", "draft">>)
  /\ (WResponded /\ WType = JsStr(<<"insert">>) /\ DraftEnvelope) =>
       /\ Skipped
       /\ Includes(WResponse.body.reason, "only INSERT events")
       /\ ~Includes(WResponse.body.reason, "not active")

\* C14 witness: an INSERT of a draft listing was skipped
C14_Witness ==
  /\ WResponded /\ WType = JsStr(<<"INSERT">>) /\ DraftEnvelope
  /\ Skipped

\* the fields of the video input bag
BagFields ==
  {"listingTitle", "listingDescription", "images", "specifications", "sellerName",
   "logoUrl"}

\* what holds of the webhook in every state: a valid payload whose
\* preparation raised nothing is answered 200 with the prepared job, and
\* the only external calls are client creation and the profile lookup
PreparedOnly ==
  /\ \A i \in 1..Len(wcalls) :
       wcalls[i].name \in {"createRouteHandlerClient", "profiles.select"}
  /\ (WResponded /\ wh.body # Undefined /\ ~FailsValidation
        /\ ~HasResult(wcalls, "createRouteHandlerClient", {"throw"})) => Prepared
  /\ Prepared =>
       /\ ~FailsValidation
       /\ WResponse.body.success = TRUE
       /\ WResponse.body.listingId = Get(WRecord, "id")
       /\ WResponse.body.videoPath[1] = "video-reels/"
       /\ Contains(WResponse.body.videoPath, ToStr(Get(WRecord, "id")))
       /\ DOMAIN WResponse.body.videoData.f = BagFields
       /\ Get(WResponse.body.videoData, "listingTitle") = Get(WRecord, "title")
       /\ Count(wcalls, "profiles.select") = 1

\* C15: the webhook ends in "prepared, not rendered": on a valid payload
\* whose preparation succeeds it builds the video input bag and answers 200
\* with success = true, the listing id, the planned video path and the
\* prepared video data; on no path does it bundle or render, upload to
\* storage, write a file or write the listing's video_url.
C15_PreparedNotRendered ==
  [][wh'.pc # "idle" =>
       (PreparedOnly' /\ UNCHANGED <<listings, storage, tmpFiles>>)]_vars

\* C15 witness: a valid payload was answered with the prepared job while
\* the listing still has no video
C15_Witness ==
  /\ Prepared
  /\ listings[IdL1].video_url = JsNull
  /\ storage = {}

(***************************************************************************)
(* Properties of the description generator.                                *)
(***************************************************************************)
GenReturned == gen.pc = "returned"
IsShort == gen.fn = "generateVideoDescription"
IsDetailed == gen.fn = "generateDetailedDescription"

\* the result was composed by the fallback: the service was not called, or
\* it raised
FromFallback == ~gen.called \/ gen.svc.throws
FromService == gen.called /\ ~gen.svc.throws

\* the service's text as the variant takes it: trimmed, and for the punchy
\* variant without its surrounding quotes
ServiceText ==
  IF IsDetailed THEN StripQuotes(Trim(gen.svc.value)) ELSE Trim(gen.svc.value)

\* the budget the variant's prompt states
PromptBudget == IF IsDetailed THEN DetailedPromptBudget ELSE ShortPromptBudget

StartsWith(text, prefix) ==
  Len(text) >= Len(prefix) /\ SubSeq(text, 1, Len(prefix)) = prefix
EndsWith(text, suffix) ==
  Len(text) >= Len(suffix)
    /\ SubSeq(text, Len(text) - Len(suffix) + 1, Len(text)) = suffix

GenPurity == Get(Get(gen.listing, "specifications"), "purity")
GenYear == Get(Get(gen.listing, "specifications"), "year")
GenCategory == Get(Get(gen.listing, "specifications"), "category")
GenCondition == Get(Get(gen.listing, "specifications"), "condition")

\* C16: the description generator never raises past its boundary: for every
\* listing argument (any subset of the specification fields, a category of
\* any type, no specifications) and every outcome of the service (answer,
\* error, not configured) both functions resolve to a string.  (Refuted: with
\* a category that is not a string the fallback raises, and so does the
\* function.)
C16_GeneratorNeverRaises ==
  GenReturned => ~gen.result.throws

\* C17: length bounds: the short form's result has at most 150 characters,
\* and at most 120 when it comes from the fallback; the punchy form's result
\* has at most 80 characters whether it comes from the service or from the
\* fallback, for categories of any length.  (Refuted: the punchy fallback is
\* not cut, a long category makes it longer than 80.)
C17_LengthBounds ==
  (GenReturned /\ ~gen.result.throws) =>
    /\ IsShort => Len(gen.result.value) <= ShortBudget
    /\ (IsShort /\ FromFallback) => Len(gen.result.value) <= FallbackBudget
    /\ IsDetailed => Len(gen.result.value) <= DetailedBudget

\* C18: truncation policy: whenever the service's text exceeds the budget
\* the variant states in its prompt (120 short, 80 punchy), the result is
\* the first budget - 3 characters followed by "...", of length exactly the
\* budget, and no service text longer than that budget is returned.
\* (Refuted: the short form cuts at 150, not at the 120 of its prompt.)
C18_TruncationAtStatedBudget ==
  (GenReturned /\ FromService) =>
    /\ Len(gen.result.value) <= PromptBudget
    /\ Len(ServiceText) > PromptBudget =>
         /\ gen.result.value = SubSeq(ServiceText, 1, PromptBudget - 3) \o Ellipsis
         /\ Len(gen.result.value) = PromptBudget

\* C19: the fallback of the short form chooses its template by the priority
\* purity+year > purity only > year only > neither, by which of purity and
\* year are non-empty alone; with both the text matches
\* "<purity> purity <category> from <year>. ..." and has at most 120
\* characters; with no specification field populated the "neither" branch
\* returns a non-empty text.  (For a category that is a string or absent;
\* what happens with any other category is the subject of C16.)
C19_FallbackBranchSelection ==
  (GenReturned /\ IsShort /\ FromFallback
     /\ (~Truthy(GenCategory) \/ GenCategory.t = "string")) =>
    /\ ~gen.result.throws
    /\ LET text == gen.result.value
          cut == EndsWith(text, Ellipsis) /\ Len(text) = FallbackBudget
          category == ToLowerCase(Or(GenCategory, JsStr(DefaultCategory)).v)
      IN  /\ text # <<>>
          /\ Len(text) <= FallbackBudget
          /\ (Truthy(GenPurity) /\ Truthy(GenYear)) =>
               /\ StartsWith(text, ToStr(GenPurity) \o PurityInfix)
               /\ ~cut => /\ StartsWith(text, ToStr(GenPurity) \o PurityInfix \o category
                                           \o FromInfix \o ToStr(GenYear) \o SentenceEnd)
                          /\ \/ EndsWith(text, ExceptionalQuality)
                             \/ EndsWith(text, ToStr(GenCondition) \o ConditionSuffix)
          /\ (Truthy(GenPurity) /\ ~Truthy(GenYear)) =>
               StartsWith(text, PremiumPrefix \o ToStr(GenPurity) \o PurityInfix)
          /\ (~Truthy(GenPurity) /\ Truthy(GenYear)) =>
               /\ StartsWith(text, CollectiblePrefix)
               /\ ~cut => Contains(text, FromInfix \o ToStr(GenYear) \o SentenceEnd)
          /\ (~Truthy(GenPurity) /\ ~Truthy(GenYear)) =>
               StartsWith(text, BeautifulPrefix)

\* C19 witness: purity and year present, no condition: the purity+year
\* template, word for word
C19_Witness ==
  /\ GenReturned /\ IsShort /\ FromFallback
  /\ Truthy(GenPurity) /\ Truthy(GenYear)
  /\ gen.result =
       Ok(<<".","9","9","9"," ","p","u","r","i","t","y"," ","g","o","l","d",
         " ","f","r","o","m"," ","2","0","2","4","."," ","E","x","c","e",
         "p","t","i","o","n","a","l"," ","q","u","a","l","i","t","y",".">>)

\* the fallback of the variant that was called
FallbackOf(listing) ==
  IF IsDetailed THEN generateFallbackDetailed(listing)
                ELSE generateFallbackDescription(listing)

\* C20: fallback-only mode: when no credential is configured neither
\* function calls the service and the outcome is that of the deterministic
\* fallback for the listing, a function of the listing alone; the same
\* fallback outcome is returned when the service call raises.
C20_FallbackOnlyMode ==
  GenReturned =>
    /\ ~env.hasGeminiKey => (~gen.called /\ gen.result = FallbackOf(gen.listing))
    /\ (gen.called /\ gen.svc.throws) => gen.result = FallbackOf(gen.listing)
    /\ gen.called => env.hasGeminiKey

\* C20 witness: no credential, the short form returned the fallback text
\* without calling the service
C20_Witness ==
  /\ GenReturned /\ IsShort
  /\ ~env.hasGeminiKey /\ ~gen.called
  /\ ~gen.result.throws /\ StartsWith(gen.result.value, BeautifulPrefix)

\* the answer is wrapped in a pair of quote characters
Wrapped(text) == Len(text) >= 2 /\ IsQuote(text[1]) /\ IsQuote(text[Len(text)])

\* the text with one pair of wrapping quotes taken off, if it has one
Unwrapped(text) == IF Wrapped(text) THEN SubSeq(text, 2, Len(text) - 1) ELSE text

\* C21: quote-stripping in the punchy variant removes one pair of quote
\* characters only when the answer is wrapped in them: a wrapped answer loses
\* exactly its first and its last character, and an answer with a quote at
\* one end only is returned with its characters unchanged.  (Refuted: a
\* quote at one end only is stripped too.)
C21_QuotePairStripped ==
  (GenReturned /\ IsDetailed /\ FromService) =>
    LET answer == Unwrapped(Trim(gen.svc.value))
    IN  gen.result.value =
          IF Len(answer) > DetailedBudget
            THEN SubSeq(answer, 1, DetailedKeep) \o Ellipsis
            ELSE answer

(***************************************************************************)
(* The health endpoint: handler(req, res), called in every configuration   *)
(* of the three secrets and with every method.                             *)
(***************************************************************************)
\* the values a secret of process.env may have: not set, set to the empty
\* string, or set to one of two values
SecretValues ==
  { Undefined, JsStr(<<>>), JsStr(<<"s","k","-","1">>), JsStr(<<"s","k","-","2">>) }

\* process.env with NEXT_PUBLIC_SUPABASE_URL, NEXT_PUBLIC_SUPABASE_ANON_KEY
\* and NEXT_PUBLIC_GEMINI_API_KEY
HealthEnvs ==
  { [NODE_ENV |-> "production", hasGeminiKey |-> Truthy(g), APP_URL |-> Undefined,
     SUPABASE_URL |-> u, SUPABASE_ANON_KEY |-> k, GEMINI_API_KEY |-> g] :
      u \in SecretValues, k \in SecretValues, g \in SecretValues }

HealthMethods == {"GET", "POST", "HEAD", "DELETE"}

\* new Date().toISOString() for a clock of less than a second
ToISOString(ms) ==
  <<"1970-01-01T00:00:00.",
    ToString(ms \div 100), ToString((ms \div 10) % 10), ToString(ms % 10), "Z">>

\* HealthBody reporting the values of the secrets instead of their presence
HealthBody_values(e, clock) ==
  [status |-> <<"ok">>,
   service |-> <<"PeerMetals Video Reels">>,
   timestamp |-> ToISOString(clock),
   env |-> [hasSupabaseUrl |-> e.SUPABASE_URL,
            hasSupabaseKey |-> e.SUPABASE_ANON_KEY,
            hasGeminiKey |-> e.GEMINI_API_KEY]]

\* the object given to res.status(200).json(...)
HealthBody(e, clock) ==
  [status |-> <<"ok">>,
   service |-> <<"PeerMetals Video Reels">>,
   timestamp |-> ToISOString(clock),
   env |-> [hasSupabaseUrl |-> JsBool(Truthy(e.SUPABASE_URL)),
            hasSupabaseKey |-> JsBool(Truthy(e.SUPABASE_ANON_KEY)),
            hasGeminiKey |-> JsBool(Truthy(e.GEMINI_API_KEY))]]

\* handler(req, res): the method is not looked at
HealthHandler(method) ==
  /\ health.pc = "idle"
  /\ health' = [pc |-> "responded", method |-> method,
                response |-> <<[status |-> 200, body |-> HealthBody(env, now)]>>]
  /\ UNCHANGED <<env, gen, now, renderVars, webhookVars>>

HealthReturn ==
  /\ health.pc = "responded"
  /\ health' = IdleHealth
  /\ UNCHANGED <<env, gen, now, renderVars, webhookVars>>

HealthInit ==
  /\ env \in HealthEnvs
  /\ now = 0
  /\ served = 0
  /\ listings = InitialListings
  /\ storage = {}
  /\ tmpFiles = {}
  /\ job = [j \in Jobs |-> IdleJob]
  /\ res = [j \in Jobs |-> <<>>]
  /\ calls = [j \in Jobs |-> <<>>]
  /\ wh = IdleWebhook
  /\ wres = <<>>
  /\ wcalls = <<>>
  /\ gen = IdleGen
  /\ health = IdleHealth

HealthNext ==
  \/ \E m \in HealthMethods : HealthHandler(m)
  \/ HealthReturn
  \/ Tick

HealthSpec == HealthInit /\ [][HealthNext]_vars

(***************************************************************************)
(* Render requests served concurrently: an invocation may start, and take  *)
(* any of its steps, while another one is between two awaits.  The steps   *)
(* up to the render succeed here: their failures end an invocation before  *)
(* it has chosen a file name.                                              *)
(***************************************************************************)
\* the requests considered: the two stored listings, by id
ConcBodies ==
  { JsObj([listingId |-> JsStr(IdL1)]), JsObj([listingId |-> JsStr(IdL2)]) }

ConcInit == Init /\ env.NODE_ENV = "production"

\* fs calls on a disk without i/o errors: the call fails only when the file
\* is not there
ConcFsOutcomes(path) == { r \in FsOutcomes(path) : r.throws => r.message = NoEntry }

ConcNext ==
  \/ \E j \in Jobs, b \in ConcBodies : Receive(j, "POST", b)
  \/ \E j \in Jobs :
       \E r \in ListingLookups(listings, Get(job[j].body, "listingId")) :
         ~Truthy(r.error) /\ FetchListing(j, r)
  \/ \E j \in Jobs :
       \E r \in ProfileLookups(Get(job[j].listing, "user_id")) :
         ~Truthy(r.error) /\ FetchProfile(j, r)
  \/ \E j \in Jobs, svc \in ServiceOutcomes : Describe(j, svc)
  \/ \E j \in Jobs, r \in BundleOutcomes : ~r.throws /\ Bundle(j, r)
  \/ \E j \in Jobs, r \in SelectOutcomes : ~r.throws /\ SelectComposition(j, r)
  \/ \E j \in Jobs, r \in RenderOutcomes : ~r.throws /\ RenderMedia(j, r, FALSE)
  \/ \E j \in Jobs :
       \E r \in ConcFsOutcomes(OutputPath(job[j].outputFileName)) : ReadFile(j, r)
  \/ \E j \in Jobs :
       \E e \in UploadResults(StoragePath(job[j].outputFileName)) : Upload(j, e)
  \/ \E j \in Jobs, e \in {JsNull} \cup UpdateErrors : UpdateListing(j, e)
  \/ \E j \in Jobs :
       \E r \in ConcFsOutcomes(OutputPath(job[j].outputFileName)) : Unlink(j, r)
  \/ \E j \in Jobs : Return(j)
  \/ Tick

ConcSpec == ConcInit /\ [][ConcNext]_vars

(***************************************************************************)
(* Properties of the video input bag and of the responses.                 *)
(***************************************************************************)
OzSuffix == <<" ","o","z">>

\* the bag's weight is the listing's weight followed by " oz", or absent
\* when the listing has none
WeightFormatted(listing, bag) ==
  LET weight == Get(listing, "weight")
      shown == Get(Get(bag, "specifications"), "weight")
  IN  /\ weight.t = "number" => shown = JsStr(weight.v \o OzSuffix)
      /\ weight.t \in {"undefined", "null"} => shown = Undefined

\* C22: in the assembled video input bag, for every listing with a numeric
\* weight, 0 included, specifications.weight is the string "<value> oz";
\* when the listing has no weight the field is absent, in both entry
\* points.  (Refuted: a weight of 0 is left out.)
C22_WeightFormatted ==
  /\ \A j \in Jobs :
       job[j].props # Undefined => WeightFormatted(job[j].listing, job[j].props)
  /\ Prepared => WeightFormatted(WRecord, wres[1].body.videoData)

\* the logo URL the configuration asks for
ConfiguredLogoUrl ==
  IF Truthy(env.APP_URL)
    THEN JsStr(ToStr(env.APP_URL) \o <<"/peermetals.png">>)
    ELSE JsStr(<<"https://peermetals.com/peermetals.png">>)

\* C23: in every entry point that assembles the video input bag, logoUrl is
\* the configured application base URL followed by "/peermetals.png" when a
\* base URL is configured, and the fixed fallback URL only when none is.
\* (Refuted: the render endpoint always uses the fixed URL.)
C23_LogoUrlResolution ==
  /\ \A j \in Jobs :
       job[j].props # Undefined => Get(job[j].props, "logoUrl") = ConfiguredLogoUrl
  /\ Prepared => Get(wres[1].body.videoData, "logoUrl") = ConfiguredLogoUrl

\* C26: every response of the render endpoint with a status other than 200
\* carries an error message and the elapsed time (renderTime), and a stack
\* trace only when NODE_ENV is "development".  (Refuted: the 405 and 400
\* responses carry no renderTime.)
C26_FailureResponseFields ==
  \A j \in Jobs :
    (Responded(j) /\ Response(j).status # 200) =>
      /\ "error" \in DOMAIN Response(j).body
      /\ Response(j).body.error # <<>>
      /\ "renderTime" \in DOMAIN Response(j).body
      /\ "stack" \in DOMAIN Response(j).body => env.NODE_ENV = "development"

SpecificationFields == {"category", "condition", "weight", "purity", "year"}

\* C28: the bag passed to composition resolution has listingTitle,
\* listingDescription and sellerName present as strings, images as a list
\* and every present specification field as a string, for every listing the
\* entry point accepts.  (Refuted: a missing title and numeric fields are
\* passed on as they are.)
C28_BagTypes ==
  \A j \in Jobs :
    Has(calls[j], "selectComposition") =>
      /\ Get(job[j].props, "listingTitle").t = "string"
      /\ Get(job[j].props, "listingDescription").t = "string"
      /\ Get(job[j].props, "sellerName").t = "string"
      /\ Get(job[j].props, "images").t = "array"
      /\ \A f \in SpecificationFields :
           Get(Get(job[j].props, "specifications"), f).t \in {"undefined", "string"}

\* C29: whenever the webhook's validation passed and a later step failed
\* (client creation, job preparation), the response is 500 with
\* success = false whatever the error's text, never 400 and never a 200
\* skip.  (Refuted: an error whose text contains "Missing" is answered 400.)
C29_DownstreamFailuresAre500 ==
  (WResponded /\ wh.body # Undefined /\ ~FailsValidation /\ ~Prepared) =>
    /\ WResponse.status = 500
    /\ WResponse.body.success = FALSE

\* the step is job j's update of the listings table: it sets video_url, and
\* nothing else, on the row whose id is the job's listing id, after the
\* job's upload succeeded and before any other update by the job
WritesVideoUrl(j) ==
  LET id == Get(job[j].listing, "id")
  IN  /\ job[j].pc = "update"
      /\ job'[j].pc = "unlink"
      /\ HasResult(calls[j], "storage.upload", {"ok"})
      /\ ~Has(calls[j], "listings.update")
      /\ id.t = "string"
      /\ id.v \in DOMAIN listings
      /\ listings' = [listings EXCEPT ![id.v].video_url = JsStr(job[j].publicUrl)]

\* C27: across any sequence of render and webhook invocations, the only
\* write on the listings table is setting video_url on the listing whose id
\* is the processed listing's id, at most once per job and only after that
\* job's upload succeeded; every other field and every other listing is
\* left unchanged.
C27_OnlyVideoUrlWritten ==
  [][listings' # listings => \E j \in Jobs : WritesVideoUrl(j)]_vars

\* a job has written the video URL of its listing, and a webhook invocation
\* has been answered after it
C27_Witness ==
  /\ listings[IdL1].video_url # JsNull
  /\ listings[IdL2] = InitialListings[IdL2]
  /\ WResponded

HealthResponded == health.pc = "responded"
HealthResponse == health.response[1]

\* the three secrets of a configuration
Secrets(e) == <<e.SUPABASE_URL, e.SUPABASE_ANON_KEY, e.GEMINI_API_KEY>>

\* two configurations have the same secrets set
SamePresence(e1, e2) ==
  \A i \in 1..3 : Truthy(Secrets(e1)[i]) <=> Truthy(Secrets(e2)[i])

\* the flags of a response, in the order of the secrets
Flags(body) == <<body.env.hasSupabaseUrl, body.env.hasSupabaseKey, body.env.hasGeminiKey>>

\* C25: every request to the health endpoint, of any method and in any
\* configuration, is answered 200; the response reports a boolean presence
\* flag for each secret, configurations that differ only in the values of
\* the secrets get the same flags, and no secret value is in the response.
C25_HealthReportsPresenceOnly ==
  HealthResponded =>
    /\ HealthResponse.status = 200
    /\ DOMAIN HealthResponse.body = {"status", "service", "timestamp", "env"}
    /\ \A i \in 1..3 :
         Flags(HealthResponse.body)[i] = JsBool(Truthy(Secrets(env)[i]))
    /\ \A e \in HealthEnvs :
         SamePresence(e, env) =>
           Flags(HealthBody(e, now)) = Flags(HealthResponse.body)
    /\ \A i \in 1..3 :
         Truthy(Secrets(env)[i]) =>
           /\ \A k \in 1..3 : Flags(HealthResponse.body)[k] # Secrets(env)[i]
           /\ Secrets(env)[i].v \notin {HealthResponse.body.status,
                                        HealthResponse.body.service,
                                        HealthResponse.body.timestamp}

\* a request other than GET answered in a configuration where one secret is
\* set, one is empty and one is not set
C25_Witness ==
  /\ HealthResponded
  /\ health.method = "DELETE"
  /\ Truthy(env.SUPABASE_URL)
  /\ env.SUPABASE_ANON_KEY = JsStr(<<>>)
  /\ env.GEMINI_API_KEY = Undefined

(***************************************************************************)
(* Properties of concurrent render jobs.                                   *)
(***************************************************************************)
\* the invocation is between its first and its last step
Running(j) == job[j].pc \notin {"idle", "responded"}

\* the invocation has chosen its output file name
Named(j) == job[j].outputFileName # <<>>

\* C24: any two concurrently running render jobs, two requests for the same
\* listing id that reach the file name step at the same clock value
\* included, use distinct local temp file paths and distinct storage
\* paths.  (Refuted: the same id at the same millisecond gives the same
\* name.)
C24_DistinctOutputPaths ==
  \A j \in Jobs : \A k \in Jobs \ {j} :
    (Running(j) /\ Running(k) /\ Named(j) /\ Named(k)) =>
      /\ OutputPath(job[j].outputFileName) # OutputPath(job[k].outputFileName)
      /\ StoragePath(job[j].outputFileName) # StoragePath(job[k].outputFileName)

\* the invocation's upload completed successfully
Uploaded(j) == HasResult(calls[j], "storage.upload", {"ok"})

\* the storage paths a job for the listing row may have chosen
PathsOf(row) ==
  { StoragePath(OutputFileName(JsObj(row), c)) : c \in 0..MaxClock }

\* every written video_url is the public URL of a stored object of that
\* listing
VideoUrlsStored ==
  \A i \in DOMAIN listings :
    listings[i].video_url # JsNull =>
      \E p \in storage \cap PathsOf(listings[i]) :
        listings[i].video_url = JsStr(PublicUrl(p))

\* every 200 response names the object the responding job uploaded
ResponsesNameOwnUpload ==
  \A j \in Jobs :
    (Responded(j) /\ Response(j).status = 200) =>
      /\ Uploaded(j)
      /\ StoragePath(job[j].outputFileName) \in storage
      /\ Response(j).body.videoUrl = PublicUrl(StoragePath(job[j].outputFileName))

\* two jobs whose uploads completed stored two objects
UploadsApart ==
  \A j \in Jobs : \A k \in Jobs \ {j} :
    (Uploaded(j) /\ Uploaded(k)) =>
      StoragePath(job[j].outputFileName) # StoragePath(job[k].outputFileName)

\* a change of the listings table is an update by a job whose upload
\* completed, and leaves that job's URL on the row of its listing, whatever
\* another job wrote there before
LastUpdateWins ==
  listings' # listings =>
    \E j \in Jobs :
      LET id == Get(job[j].listing, "id")
      IN  /\ job[j].pc = "update"
          /\ Uploaded(j)
          /\ listings' = [listings EXCEPT ![id.v].video_url =
                            JsStr(PublicUrl(StoragePath(job[j].outputFileName)))]

\* C30: under any interleaving of concurrent render jobs, for the same or
\* for different listings, a written video_url is the public URL of a
\* stored object uploaded by a job for that listing id, every 200
\* response's videoUrl names the object the responding job uploaded, and
\* with two racing jobs for one listing the video_url is that of the job
\* that updated last and both uploaded objects remain.
C30_PublishedUrlsNameUploads ==
  [][/\ VideoUrlsStored'
     /\ ResponsesNameOwnUpload'
     /\ UploadsApart'
     /\ LastUpdateWins
     /\ storage \subseteq storage']_vars

\* two jobs for one listing have both uploaded and both updated the row; the
\* row holds the URL of one of them and both objects are stored
C30_Witness ==
  \E j \in Jobs : \E k \in Jobs \ {j} :
    /\ Get(job[j].listing, "id") = Get(job[k].listing, "id")
    /\ Uploaded(j) /\ Uploaded(k)
    /\ HasResult(calls[j], "listings.update", {"ok"})
    /\ HasResult(calls[k], "listings.update", {"ok"})
    /\ {StoragePath(job[j].outputFileName), StoragePath(job[k].outputFileName)}
         \subseteq storage
    /\ listings[IdL1].video_url = JsStr(job[k].publicUrl)
    /\ job[j].publicUrl # job[k].publicUrl

====
